---- MODULE Spec2Model ----
(***************************************************************************)
(* Model of sentinel2_downloader: the acquisition pipeline                 *)
(* (get_sentinel2_image / _get_sentinel2_image), the resample-in-place     *)
(* operation (change_arr), persistence (save_image) and the crop utility   *)
(* (crop_image_to_bbox).                                                   *)
(*                                                                         *)
(* Three specifications share the variables:                               *)
(*   Spec       one call of get_sentinel2_image, step by step              *)
(*   SpecChange change_arr followed by save_image on composites            *)
(*   SpecCrop   crop_image_to_bbox on bounded rasters and boxes            *)
(***************************************************************************)
EXTENDS Integers, Sequences, FiniteSets, TLC

VARIABLES
    pc,            \* position of the running program
    args,          \* arguments of the call (frozen)
    bands,         \* local `bands` (rebound by the element84 mapping)
    file_suffix,   \* local `file_suffix`
    bbox,          \* local `bbox` (rebound to a polygon)
    client,        \* local `client`, "unbound" until assigned
    net,           \* network operations started so far
    nitems,        \* len(items) of the catalog result
    idx,           \* 1-based index of the catalog item in the scene loop
    bidx,          \* 1-based index of the band in the band loop
    bands_data,    \* local `bands_data` of the current item
    loopvars,      \* locals b/meta_b/transform/crs as last assigned
    memfile_list,  \* local `memfile_list`
    arr_list,      \* local `arr_list`
    ret,           \* what the call returned
    exc,           \* exception that reached the caller, "none" otherwise
    scenes,        \* log: what the catalog held for each item processed
    new_memfiles,  \* change_arr: local `new_memfiles`
    repl,          \* change_arr: the replacement arrays (arr_list argument)
    saved,         \* save_image: files written
    crop           \* crop_image_to_bbox: inputs and outcome

vars == <<pc, args, bands, file_suffix, bbox, client, net, nitems, idx, bidx,
          bands_data, loopvars, memfile_list, arr_list, ret, exc, scenes,
          new_memfiles, repl, saved, crop>>

None == "None"

(***************************************************************************)
(* Bounds                                                                  *)
(***************************************************************************)
\* largest number of items a catalog search returns
MaxItems == 2
\* largest number of MemoryFiles / arrays handed to change_arr
MaxFiles == 2
\* largest raster side (pixels) and largest box coordinate of the crop runs
MaxSide == 3

(***************************************************************************)
(* Rational numbers n/d with d a power of two, kept in lowest terms: the   *)
(* coefficients of an affine transform (Python floats, where x / 2 is      *)
(* exact).                                                                 *)
(***************************************************************************)
Rat(n) == <<n, 1>>

Half(q) == IF q[1] % 2 = 0 THEN <<q[1] \div 2, q[2]>> ELSE <<q[1], 2 * q[2]>>

\* rasterio.Affine(a, b, c, d, e, f)
Affine(a, b, c, d, e, f) == [a |-> a, b |-> b, c |-> c, d |-> d, e |-> e, f |-> f]

(***************************************************************************)
(* get_sentinel2_image: configuration                                      *)
(***************************************************************************)
band_names ==
    [k \in {"B04", "B03", "B02", "B01", "B05", "B06", "B07", "B08", "B8A",
            "B09", "B10", "B11", "B12"} |->
        CASE k = "B04" -> "red"
          [] k = "B03" -> "green"
          [] k = "B02" -> "blue"
          [] k = "B01" -> "coastal"
          [] k = "B05" -> "rededge1"
          [] k = "B06" -> "rededge2"
          [] k = "B07" -> "rededge3"
          [] k = "B08" -> "nir"
          [] k = "B8A" -> "nir08"
          [] k = "B09" -> "nir09"
          [] k = "B10" -> "cirrus"
          [] k = "B11" -> "swir16"
          [] k = "B12" -> "swir22"]

\* bands == ['B04', 'B03', 'B02'] or bands == ['red', 'green', 'blue']
IsRGB(bs) == bs = <<"B04", "B03", "B02">> \/ bs = <<"red", "green", "blue">>

\* delta_km_to_deg, with distances in units of 111.32 km and 1/cos(lat)
\* tabulated for the latitudes of the model (cos 0 = 1, cos 60 = 1/2)
InvCos(lat) == IF lat = 60 THEN 2 ELSE 1

delta_km_to_deg(lat, delta_x, delta_y) == <<delta_x * InvCos(lat), delta_y>>

\* shapely box(minx, miny, maxx, maxy): a polygon, built without validation;
\* .bounds gives back the extreme coordinates
box(b) == [kind |-> "Polygon",
           bounds |-> <<IF b[1] < b[3] THEN b[1] ELSE b[3],
                        IF b[2] < b[4] THEN b[2] ELSE b[4],
                        IF b[1] < b[3] THEN b[3] ELSE b[1],
                        IF b[2] < b[4] THEN b[4] ELSE b[2]>>,
           given |-> b]

(***************************************************************************)
(* Inputs of a call                                                        *)
(***************************************************************************)
Apis == {"microsoft", "element84", "planet"}

BandLists == { <<"B04", "B03", "B02">>, <<"B08">>, <<"B08", "B11">>, <<"B99">> }

\* bbox=None is the empty tuple; the third box has minx > maxx
NoBox == <<>>

BboxArgs == { NoBox, <<10, 50, 12, 52>>, <<12, 50, 10, 52>> }

Args == [lat : {60}, lon : {10}, bbox_delta : {1}, api : Apis,
         bbox : BboxArgs, bands : BandLists, full : BOOLEAN]

(***************************************************************************)
(* What the remote side can hold                                           *)
(***************************************************************************)
\* transform, CRS and pixel grid of one band asset as the reader returns it
Geos == { [transform |-> Affine(Rat(10), Rat(0), Rat(300), Rat(0), Rat(-10), Rat(500)),
           crs |-> "EPSG:32638", shape |-> <<2, 2>>],
          [transform |-> Affine(Rat(20), Rat(6), Rat(100), Rat(4), Rat(-20), Rat(700)),
           crs |-> "EPSG:32639", shape |-> <<2, 2>>],
          [transform |-> Affine(Rat(10), Rat(0), Rat(300), Rat(0), Rat(-10), Rat(500)),
           crs |-> "EPSG:32638", shape |-> <<2, 3>>] }

\* item.properties of a catalog item
ItemProps == { [datetime |-> "2024-01-05T07:41:09Z", cloud |-> 3, platform |-> "sentinel-2a"],
               [datetime |-> "2024-01-13T07:40:11Z", cloud |-> 7, platform |-> None],
               [datetime |-> "05/01/2024 07:41", cloud |-> 0, platform |-> "sentinel-2b"] }

\* mutant: a parser that accepts any string
isoparse_lenient(s) == [ok |-> TRUE, year |-> 2024, month |-> 1, day |-> 5]

\* dateutil isoparse: the date of an ISO-8601 string; ok = FALSE stands for
\* the ValueError it raises on anything else
isoparse(s) ==
    CASE s = "2024-01-05T07:41:09Z" -> [ok |-> TRUE, year |-> 2024, month |-> 1, day |-> 5]
      [] s = "2024-01-13T07:40:11Z" -> [ok |-> TRUE, year |-> 2024, month |-> 1, day |-> 13]
      [] OTHER -> [ok |-> FALSE, year |-> 0, month |-> 0, day |-> 0]

Digit(n) == CASE n = 0 -> "0" [] n = 1 -> "1" [] n = 2 -> "2" [] n = 3 -> "3"
              [] n = 4 -> "4" [] n = 5 -> "5" [] n = 6 -> "6" [] n = 7 -> "7"
              [] n = 8 -> "8" [] n = 9 -> "9"

\* f'{n:02d}'
Fmt02(n) == Digit((n \div 10) % 10) \o Digit(n % 10)

\* f'{n}' for a four-digit year
FmtYear(n) == Digit((n \div 1000) % 10) \o Digit((n \div 100) % 10) \o Fmt02(n % 100)

\* f'_{date.year}_{date.month:02d}_{date.day:02d}_{label}'
SuffixOf(date, label) ==
    "_" \o FmtYear(date.year) \o "_" \o Fmt02(date.month) \o "_" \o Fmt02(date.day)
        \o "_" \o label

(***************************************************************************)
(* Readers.  `link` names the asset (scene, band); `geo` is what the       *)
(* remote asset holds for the requested window.                            *)
(***************************************************************************)
\* src.meta / cog.dataset.meta of a single-band asset
AssetMeta(geo) == [driver |-> "GTiff", count |-> 1,
                   height |-> geo.shape[1], width |-> geo.shape[2],
                   transform |-> geo.transform, crs |-> geo.crs]

Pixels(link, geo) == [scene |-> link.scene, band |-> link.band, shape |-> geo.shape]

\* download(url): (band, meta, transform, crs)
download(link, geo) ==
    [b |-> Pixels(link, geo), meta_b |-> AssetMeta(geo),
     transform |-> geo.transform, crs |-> geo.crs]

\* download_bbox(url, bounds): (band, meta, meta["transform"], cog.crs)
download_bbox(link, bounds, geo) ==
    LET band == Pixels(link, geo)
        meta == [AssetMeta(geo) EXCEPT !.height = band.shape[1],
                                       !.width = band.shape[2],
                                       !.transform = geo.transform,
                                       !.count = 1]
    IN [b |-> band, meta_b |-> meta, transform |-> meta.transform, crs |-> geo.crs]

(***************************************************************************)
(* Composite assembly                                                      *)
(***************************************************************************)
\* np.stack([r, g, b], axis=0): needs equal shapes
StackOk(bd) == bd[1].b.shape = bd[2].b.shape /\ bd[2].b.shape = bd[3].b.shape

\* mutant: the stack in blue, green, red order
np_stack_bgr(bd) == << bd[3].b, bd[2].b, bd[1].b >>

np_stack(bd) == << bd[1].b, bd[2].b, bd[3].b >>

\* mutant: georeferencing of the first sample of the scene
RGBMeta_first(lv) == [bands_data[1].meta_b EXCEPT !.count = 3, !.driver = "GTiff",
                                                 !.transform = bands_data[1].transform,
                                                 !.crs = bands_data[1].crs]

\* meta_b.update({"count": 3, ..., "transform": transform, "crs": crs}), on
\* the meta_b, transform and crs the band loop assigned last
RGBMeta(lv) == [lv.meta_b EXCEPT !.count = 3, !.driver = "GTiff",
                                 !.transform = lv.transform, !.crs = lv.crs]

platform_of(props) == IF props.platform = None THEN "Sentinel-2" ELSE props.platform

\* dst.update_tags(Title=..., CloudCover=..., Date=..., Suffix=..., Platform=...)
Tags(title, props, date, label) ==
    [Title |-> title, CloudCover |-> props.cloud, Date |-> props.datetime,
     Suffix |-> SuffixOf(date, label), Platform |-> platform_of(props)]

RGBMemfile(bd, lv, props) ==
    [meta |-> RGBMeta(lv), data |-> np_stack(bd),
     tags |-> Tags("Sentinel-2 RGB Composite", props, isoparse(props.datetime), "RGB")]

BandMemfile(data, band_name, props) ==
    [meta |-> data.meta_b, data |-> << data.b >>,
     tags |-> Tags("Sentinel-2 " \o band_name \o " Band", props,
                   isoparse(props.datetime), band_name)]

\* zip(bands_data, file_suffix)
ZipLen(bd, fs) == IF Len(bd) < Len(fs) THEN Len(bd) ELSE Len(fs)

\* mutant: only the first band of the scene is written
BandMemfiles_first(bd, fs, props) ==
    [k \in 1..(IF ZipLen(bd, fs) > 0 THEN 1 ELSE 0) |-> BandMemfile(bd[k], fs[k], props)]

BandMemfiles(bd, fs, props) ==
    [k \in 1..ZipLen(bd, fs) |-> BandMemfile(bd[k], fs[k], props)]

BandArrays(bd, fs) == [k \in 1..ZipLen(bd, fs) |-> bd[k].b]

(***************************************************************************)
(* One call of get_sentinel2_image                                         *)
(***************************************************************************)
Idle == /\ new_memfiles = <<>>
        /\ repl = <<>>
        /\ saved = <<>>
        /\ crop = [phase |-> "idle"]

Init ==
    /\ pc = "api"
    /\ args \in Args
    /\ bands = args.bands
    /\ bbox = args.bbox
    /\ file_suffix = <<>>
    /\ client = "unbound"
    /\ net = {}
    /\ nitems = 0
    /\ idx = 0
    /\ bidx = 0
    /\ bands_data = <<>>
    /\ loopvars = <<>>
    /\ memfile_list = <<>>
    /\ arr_list = <<>>
    /\ ret = "pending"
    /\ exc = "none"
    /\ scenes = <<>>
    /\ Idle

\* an exception leaves the call: nothing is returned
Raise(e) == /\ pc' = "raised"
            /\ exc' = e
            /\ ret' = "nothing"

\* lines 104-131: file_suffix, the client, the element84 band names
ApiLogic ==
    /\ pc = "api"
    /\ file_suffix' = bands
    /\ IF args.api = "microsoft"
       THEN /\ net' = net \cup {"open"}
            /\ client' = "microsoft"
            /\ bands' = bands
            /\ pc' = "bbox"
            /\ UNCHANGED <<exc, ret>>
       ELSE IF args.api = "element84"
       THEN /\ net' = net \cup {"open"}
            /\ client' = "element84"
            /\ IF \A k \in 1..Len(bands) : bands[k] \in DOMAIN band_names
               THEN /\ bands' = [k \in 1..Len(bands) |-> band_names[bands[k]]]
                    /\ pc' = "bbox"
                    /\ UNCHANGED <<exc, ret>>
               ELSE /\ Raise("KeyError")
                    /\ UNCHANGED bands
       ELSE /\ pc' = "bbox"
            /\ UNCHANGED <<net, client, bands, exc, ret>>
    /\ UNCHANGED <<args, bbox, nitems, idx, bidx, bands_data, loopvars,
                   memfile_list, arr_list, scenes, new_memfiles, repl, saved, crop>>

\* lines 134-148: the polygon, then the arguments of _get_sentinel2_image
BboxLogic ==
    /\ pc = "bbox"
    /\ IF bbox = NoBox
       THEN LET delta == <<args.bbox_delta, args.bbox_delta>>
                deg == delta_km_to_deg(args.lat, delta[1], delta[2])
            IN bbox' = box(<<args.lon - deg[1], args.lat - deg[2],
                             args.lon + deg[1], args.lat + deg[2]>>)
       ELSE bbox' = box(bbox)
    /\ IF client = "unbound"
       THEN Raise("UnboundLocalError")
       ELSE /\ pc' = "search"
            /\ UNCHANGED <<exc, ret>>
    /\ UNCHANGED <<args, bands, file_suffix, client, net, nitems, idx, bidx,
                   bands_data, loopvars, memfile_list, arr_list, scenes,
                   new_memfiles, repl, saved, crop>>

\* lines 155-173: the catalog search and its item collection
Search ==
    /\ pc = "search"
    /\ net' = net \cup {"search"}
    /\ \E n \in 0..MaxItems :
        /\ nitems' = n
        /\ IF n = 0
           THEN /\ pc' = "returned"
                /\ ret' = "None"
                /\ UNCHANGED <<idx, bidx>>
           ELSE /\ pc' = "bands"
                /\ idx' = 1
                /\ bidx' = 1
                /\ UNCHANGED ret
    /\ memfile_list' = <<>>
    /\ arr_list' = <<>>
    /\ bands_data' = <<>>
    /\ UNCHANGED <<args, bands, file_suffix, bbox, client, loopvars, exc, scenes,
                   new_memfiles, repl, saved, crop>>

\* lines 180-192: one turn of the band loop.  The asset map of the item
\* either lacks the band (KeyError), holds a link that is None (break), or
\* holds a link the reader fetches.
Fetch ==
    /\ pc = "bands"
    /\ LET band == bands[bidx]
           link == [scene |-> idx, band |-> band]
       IN \/ /\ Raise("KeyError")
             /\ UNCHANGED <<net, bands_data, loopvars, bidx>>
          \/ /\ pc' = "assemble"
             /\ UNCHANGED <<net, bands_data, loopvars, bidx, exc, ret>>
          \/ \E geo \in Geos :
               LET s == IF args.full THEN download(link, geo)
                                     ELSE download_bbox(link, bbox.bounds, geo)
               IN /\ net' = net \cup {"fetch"}
                  /\ bands_data' = Append(bands_data, s)
                  /\ loopvars' = s
                  /\ bidx' = bidx + 1
                  /\ pc' = IF bidx = Len(bands) THEN "assemble" ELSE "bands"
                  /\ UNCHANGED <<exc, ret>>
    /\ UNCHANGED <<args, bands, file_suffix, bbox, client, nitems, idx,
                   memfile_list, arr_list, scenes, new_memfiles, repl, saved, crop>>

\* the scene loop moves on: next item, or return arr_list, memfile_list
NextScene ==
    IF idx = nitems
    THEN /\ pc' = "returned"
         /\ ret' = "lists"
         /\ UNCHANGED <<idx, bidx, bands_data>>
    ELSE /\ pc' = "bands"
         /\ idx' = idx + 1
         /\ bidx' = 1
         /\ bands_data' = <<>>
         /\ UNCHANGED ret

\* lines 195-248: the composite (or the per-band rasters) of the item
Assemble ==
    /\ pc = "assemble"
    /\ \E props \in ItemProps :
        /\ scenes' = Append(scenes, [props |-> props, fetched |-> bands_data])
        /\ IF IsRGB(bands)
           THEN IF Len(bands_data) < 3
                THEN /\ Raise("IndexError")
                     /\ UNCHANGED <<memfile_list, arr_list, loopvars, idx, bidx, bands_data>>
                ELSE IF ~StackOk(bands_data)
                THEN /\ Raise("ValueError")
                     /\ UNCHANGED <<memfile_list, arr_list, loopvars, idx, bidx, bands_data>>
                ELSE IF ~isoparse(props.datetime).ok
                THEN /\ Raise("ValueError")
                     /\ loopvars' = [loopvars EXCEPT !.meta_b = RGBMeta(loopvars)]
                     /\ UNCHANGED <<memfile_list, arr_list, idx, bidx, bands_data>>
                ELSE /\ memfile_list' = Append(memfile_list,
                                               RGBMemfile(bands_data, loopvars, props))
                     /\ arr_list' = Append(arr_list, np_stack(bands_data))
                     /\ loopvars' = [loopvars EXCEPT !.meta_b = RGBMeta(loopvars)]
                     /\ NextScene
                     /\ UNCHANGED exc
           ELSE IF ZipLen(bands_data, file_suffix) > 0 /\ ~isoparse(props.datetime).ok
                THEN /\ Raise("ValueError")
                     /\ loopvars' = bands_data[1]
                     /\ UNCHANGED <<memfile_list, arr_list, idx, bidx, bands_data>>
                ELSE /\ memfile_list' = memfile_list
                                          \o BandMemfiles(bands_data, file_suffix, props)
                     /\ arr_list' = arr_list \o BandArrays(bands_data, file_suffix)
                     /\ loopvars' = IF ZipLen(bands_data, file_suffix) > 0
                                    THEN bands_data[ZipLen(bands_data, file_suffix)]
                                    ELSE loopvars
                     /\ NextScene
                     /\ UNCHANGED exc
    /\ UNCHANGED <<args, bands, file_suffix, bbox, client, net, nitems,
                   new_memfiles, repl, saved, crop>>

Next == ApiLogic \/ BboxLogic \/ Search \/ Fetch \/ Assemble

Spec == Init /\ [][Next]_vars

(***************************************************************************)
(* Properties of the acquisition pipeline (specification Spec)             *)
(***************************************************************************)
\* the catalog item an output was made from
SceneOf(m) == m.data[1].scene

\* the band loop of logged item i ended by `break` (a link was None)
Skipped(i) == Len(scenes[i].fetched) < Len(bands)

\* the code reached the tag derivation of logged item i
TagsDerived(i) ==
    IF IsRGB(bands)
    THEN Len(scenes[i].fetched) = 3 /\ StackOk(scenes[i].fetched)
    ELSE Len(scenes[i].fetched) >= 1

\* outputs one item contributes when nothing fails
PerScene == IF IsRGB(bands) THEN 1 ELSE Len(bands)

\* position of output k among the outputs of its own item
PosInScene(k) ==
    Cardinality({j \in 1..k : SceneOf(memfile_list[j]) = SceneOf(memfile_list[k])})

\* C1: an output is appended for a scene only if every requested band of
\* that scene was fetched; a scene with a skipped band contributes nothing
\* to memfile_list or arr_list.
C1_NoPartialOutput ==
    \A k \in 1..Len(memfile_list) : ~Skipped(SceneOf(memfile_list[k]))

\* C2: a band missing for one scene (link None, or absent from the asset
\* map) is contained: no exception raised inside the scene loop by the
\* missing band reaches the caller.
C2_MissingBandContained ==
    ~(pc = "raised" /\ idx > 0 /\ exc \in {"KeyError", "IndexError"})

\* C3 as claimed: when the call returns and every band of every item was
\* fetched, there is exactly one output per catalog item, in catalog order.
C3_OnePerItem ==
    (pc = "returned" /\ ret = "lists" /\ \A i \in 1..Len(scenes) : ~Skipped(i))
        => /\ Len(memfile_list) = nitems
           /\ Len(arr_list) = nitems
           /\ \A k \in 1..Len(memfile_list) : SceneOf(memfile_list[k]) = k

\* C3 amended: when the call returns and every band of every item was
\* fetched, the RGB triple gives one composite per item and any other band
\* list gives one single-band raster per requested band of every item; the
\* outputs come item by item in catalog order.
C3_OutputsPerItem ==
    (pc = "returned" /\ ret = "lists" /\ \A i \in 1..Len(scenes) : ~Skipped(i))
        => /\ Len(memfile_list) = nitems * PerScene
           /\ Len(arr_list) = nitems * PerScene
           /\ \A k \in 1..Len(memfile_list) :
                SceneOf(memfile_list[k]) = ((k - 1) \div PerScene) + 1

C3_Witness ==
    /\ pc = "returned" /\ ret = "lists" /\ nitems = 2
    /\ \A i \in 1..Len(scenes) : ~Skipped(i)
    /\ Len(bands) = 2
    /\ Len(memfile_list) = 4
    /\ SceneOf(memfile_list[3]) = 2

\* C4 as claimed: every output of a fully fetched scene stacks the samples
\* in the order of the requested band list: its band count is the number of requested bands
\* and band i holds the i-th requested band.
C4_StackAllBands ==
    \A k \in 1..Len(memfile_list) :
        LET m == memfile_list[k]
        IN ~Skipped(SceneOf(m))
            => /\ m.meta.count = Len(bands)
               /\ Len(m.data) = Len(bands)
               /\ \A j \in 1..Len(m.data) : m.data[j].band = bands[j]

\* C4 amended: the RGB triple gives composites of band count 3 whose bands
\* are the red, green and blue samples of the scene in that order, with
\* the _RGB suffix; any other band list gives single-band rasters, the j-th
\* output of a scene holding the j-th requested band and carrying the
\* suffix of that band's requested name.
C4_BandOrder ==
    \A k \in 1..Len(memfile_list) :
        LET m == memfile_list[k]
            i == SceneOf(m)
            date == isoparse(m.tags.Date)
        IN IF IsRGB(bands)
           THEN /\ m.meta.count = 3
                /\ Len(m.data) = 3
                /\ \A j \in 1..3 : m.data[j] = scenes[i].fetched[j].b
                                   /\ m.data[j].band = bands[j]
                /\ arr_list[k] = m.data
                /\ m.tags.Suffix = SuffixOf(date, "RGB")
           ELSE /\ m.meta.count = 1
                /\ Len(m.data) = 1
                /\ m.data[1] = scenes[i].fetched[PosInScene(k)].b
                /\ m.data[1].band = bands[PosInScene(k)]
                /\ arr_list[k] = m.data[1]
                /\ m.tags.Suffix = SuffixOf(date, args.bands[PosInScene(k)])

C4_Witness ==
    /\ IsRGB(bands)
    /\ Len(memfile_list) >= 1
    /\ memfile_list[1].meta.count = 3
    /\ memfile_list[1].data[1].band = bands[1]
    /\ memfile_list[1].tags.Suffix = "_2024_01_05_RGB"

\* C5 as claimed: a scene whose timestamp cannot be parsed still gets its
\* composite appended and no exception reaches the caller.
C5_BadDateTolerated ==
    \A i \in 1..Len(scenes) :
        (TagsDerived(i) /\ ~isoparse(scenes[i].props.datetime).ok)
            => /\ pc # "raised"
               /\ \E k \in 1..Len(memfile_list) : SceneOf(memfile_list[k]) = i

\* C5 amended: when the tags of a scene are derived and its timestamp
\* cannot be parsed, the parser's ValueError reaches the caller: nothing
\* is appended for that scene and no later scene is processed.
C5_BadDateRaises ==
    \A i \in 1..Len(scenes) :
        (TagsDerived(i) /\ ~(scenes[i].props.datetime
                                \in {"2024-01-05T07:41:09Z", "2024-01-13T07:40:11Z"}))
            => /\ pc = "raised"
               /\ exc = "ValueError"
               /\ ret = "nothing"
               /\ i = Len(scenes)
               /\ idx = i
               /\ \A k \in 1..Len(memfile_list) : SceneOf(memfile_list[k]) < i
               /\ Len(arr_list) = Len(memfile_list)

C5_Witness ==
    /\ pc = "raised"
    /\ exc = "ValueError"
    /\ Len(scenes) = 2
    /\ TagsDerived(2)
    /\ scenes[2].props.datetime = "05/01/2024 07:41"
    /\ Len(memfile_list) >= 1

\* C9: a failure of geometry construction or configuration (box with
\* min >= max on an axis, unsupported api, band outside the band-name
\* mapping) is raised before any network operation has started.
BadConfig ==
    \/ args.api \notin {"microsoft", "element84"}
    \/ /\ args.api = "element84"
       /\ \E k \in 1..Len(args.bands) : args.bands[k] \notin DOMAIN band_names
    \/ /\ args.bbox # NoBox
       /\ ~(args.bbox[1] < args.bbox[3] /\ args.bbox[2] < args.bbox[4])

C9_FailBeforeNetwork ==
    BadConfig => /\ net = {}
                 /\ pc \in {"api", "bbox", "raised"}

\* C10 as claimed: the RGB composite takes transform, CRS and pixel
\* dimensions from the first band sample of the scene.
C10_FirstBandGeoref ==
    IsRGB(bands) =>
        \A k \in 1..Len(memfile_list) :
            LET m == memfile_list[k]
                first == scenes[SceneOf(m)].fetched[1]
            IN /\ m.meta.transform = first.transform
               /\ m.meta.crs = first.crs
               /\ m.meta.height = first.meta_b.height
               /\ m.meta.width = first.meta_b.width

\* C10 amended: the RGB composite takes transform, CRS and metadata
\* record from the last band sample in the requested order (the one the
\* band loop fetched last), whatever the earlier samples hold; its pixel
\* dimensions are those of every band of the scene.
C10_LastBandGeoref ==
    IsRGB(bands) =>
        \A k \in 1..Len(memfile_list) :
            LET m == memfile_list[k]
                f == scenes[SceneOf(m)].fetched
            IN /\ m.meta.transform = f[3].transform
               /\ m.meta.crs = f[3].crs
               /\ m.meta.height = f[3].meta_b.height
               /\ m.meta.width = f[3].meta_b.width
               /\ \A j \in 1..3 : f[j].b.shape = <<m.meta.height, m.meta.width>>

C10_Witness ==
    /\ IsRGB(bands)
    /\ Len(memfile_list) >= 1
    /\ LET f == scenes[1].fetched
       IN /\ f[1].transform # f[3].transform
          /\ f[1].crs # f[3].crs
          /\ memfile_list[1].meta.transform = f[3].transform

(***************************************************************************)
(* change_arr and save_image (specification SpecChange)                    *)
(***************************************************************************)
\* mutant: halves the b and e terms instead of a and e
HalvedTransform_be(trs) == Affine(trs.a, Half(trs.b), trs.c, trs.d, Half(trs.e), trs.f)

\* rasterio.Affine(trs.a / 2, trs.b, trs.c, trs.d, trs.e / 2, trs.f)
HalvedTransform(trs) == Affine(Half(trs.a), trs.b, trs.c, trs.d, Half(trs.e), trs.f)

\* meta = src.meta.copy(); meta.update({'height', 'width', 'transform'})
ChangedMeta(m, arr) ==
    [m.meta EXCEPT !.height = arr.shape[1], !.width = arr.shape[2],
                   !.transform = HalvedTransform(m.meta.transform)]

\* a dataset nobody called update_tags on
NoTags == [t \in {} |-> ""]

\* new_memfile.open(**meta); dst.write(arr[np.newaxis, ...]): a one-band
\* array, which the writer takes only for a dataset of count 1
WriteOk(meta, arr) == meta.count = 1

NewMemfile(m, arr) == [meta |-> ChangedMeta(m, arr), data |-> << arr >>, tags |-> NoTags]

\* [item for sublist in memfiles for item in sublist]
RECURSIVE Flatten(_)
Flatten(ll) == IF ll = <<>> THEN <<>> ELSE Head(ll) \o Flatten(Tail(ll))

\* the upscaled arrays handed in as arr_list
Upscaled == { [scene |-> 0, band |-> "upscaled", shape |-> sh] : sh \in {<<2, 2>>, <<4, 6>>} }

\* composites as the pipeline makes them, which change_arr is called on
Composites ==
    LET link == [scene |-> 1, band |-> "B08"]
        good == {q \in ItemProps : isoparse(q.datetime).ok}
        rgb(g) == [k \in 1..3 |->
                     download_bbox([scene |-> 1, band |-> <<"B04", "B03", "B02">>[k]],
                                   <<9, 49, 11, 51>>, g)]
    IN {BandMemfile(download_bbox(link, <<9, 49, 11, 51>>, g), "B08", q) :
            g \in Geos, q \in good}
       \cup {RGBMemfile(rgb(g), rgb(g)[3], q) : g \in {h \in Geos : h.shape = <<2, 2>>},
                                                q \in {r \in good : r.platform # None}}

SeqsUpTo(S, n) == UNION { [1..k -> S] : k \in 0..n }

InitChange ==
    /\ pc = "change_arr"
    /\ \E ms \in SeqsUpTo(Composites, MaxFiles), nested \in BOOLEAN :
         args = [nested |-> nested,
                 memfiles |-> IF nested THEN [k \in 1..Len(ms) |-> << ms[k] >>] ELSE ms]
    /\ repl \in SeqsUpTo(Upscaled, MaxFiles)
    /\ memfile_list = <<>>
    /\ new_memfiles = <<>>
    /\ saved = <<>>
    /\ idx = 0
    /\ ret = "pending"
    /\ exc = "none"
    /\ bands = <<>> /\ file_suffix = <<>> /\ bbox = NoBox /\ client = "unbound"
    /\ net = {} /\ nitems = 0 /\ bidx = 0 /\ bands_data = <<>> /\ loopvars = <<>>
    /\ arr_list = <<>> /\ scenes = <<>>
    /\ crop = [phase |-> "idle"]

ChangeFrame == UNCHANGED <<args, bands, file_suffix, bbox, client, net, nitems, bidx,
                           bands_data, loopvars, arr_list, scenes, repl, crop>>

\* metadata.py lines 20-23: new_memfiles = []; flatten a list of lists
ChangeBegin ==
    /\ pc = "change_arr"
    /\ IF Len(args.memfiles) = 0
       THEN /\ Raise("IndexError")
            /\ UNCHANGED <<memfile_list, idx>>
       ELSE /\ memfile_list' = IF args.nested THEN Flatten(args.memfiles)
                                               ELSE args.memfiles
            /\ idx' = 1
            /\ pc' = "zip"
            /\ UNCHANGED <<exc, ret>>
    /\ new_memfiles' = <<>>
    /\ UNCHANGED saved
    /\ ChangeFrame

\* metadata.py lines 24-39: one turn of the zip loop
ChangeStep ==
    /\ pc = "zip"
    /\ idx <= ZipLen(memfile_list, repl)
    /\ LET m == memfile_list[idx]
           arr == repl[idx]
       IN IF WriteOk(ChangedMeta(m, arr), arr)
          THEN /\ new_memfiles' = Append(new_memfiles, NewMemfile(m, arr))
               /\ idx' = idx + 1
               /\ UNCHANGED <<pc, exc, ret>>
          ELSE /\ Raise("ValueError")
               /\ UNCHANGED <<new_memfiles, idx>>
    /\ UNCHANGED <<memfile_list, saved>>
    /\ ChangeFrame

\* metadata.py line 41: return new_memfiles
ChangeReturn ==
    /\ pc = "zip"
    /\ idx > ZipLen(memfile_list, repl)
    /\ pc' = "changed"
    /\ ret' = "new_memfiles"
    /\ UNCHANGED <<memfile_list, new_memfiles, saved, idx, exc>>
    /\ ChangeFrame

\* os.path.join(output_dir, f"sentinel2_image_{i}.tif") without its last
\* four characters, i.e. path[:-4]
PathStem(i) == "sentinel2_image_" \o Digit(i)

\* save_image(memfile, path): the file written and what it holds
SavedFile(m, stem) ==
    [name |-> IF "Suffix" \in DOMAIN m.tags /\ m.tags["Suffix"] # ""
              THEN stem \o m.tags["Suffix"] \o ".tif"
              ELSE stem \o ".tif",
     meta |-> m.meta, data |-> m.data, tags |-> m.tags]

\* the caller saves the composites it holds, the originals and then the
\* ones change_arr returned, one save_image call each
SaveImage ==
    /\ pc = "changed"
    /\ LET all == memfile_list \o new_memfiles
       IN /\ Len(saved) < Len(all)
          /\ saved' = Append(saved, SavedFile(all[Len(saved) + 1], PathStem(Len(saved))))
    /\ UNCHANGED <<pc, memfile_list, new_memfiles, idx, exc, ret>>
    /\ ChangeFrame

NextChange == ChangeBegin \/ ChangeStep \/ ChangeReturn \/ SaveImage

SpecChange == InitChange /\ [][NextChange]_vars

\* q is exactly half of p
IsHalf(q, p) == 2 * q[1] * p[2] = p[1] * q[2]

C7_TagsAndCrsKept ==
    \A k \in 1..Len(new_memfiles) :
        /\ new_memfiles[k].meta.crs = memfile_list[k].meta.crs
        /\ \A t \in DOMAIN memfile_list[k].tags :
              /\ t \in DOMAIN new_memfiles[k].tags
              /\ new_memfiles[k].tags[t] = memfile_list[k].tags[t]

(***************************************************************************)
(* crop_image_to_bbox (specification SpecCrop)                             *)
(***************************************************************************)
\* int(n / d) for d > 0: Python truncates toward zero
TruncDiv(n, d) == IF n >= 0 THEN n \div d ELSE -((-n) \div d)

Min(x, y) == IF x < y THEN x ELSE y

Max(x, y) == IF x > y THEN x ELSE y

\* rasterio.warp.transform_bounds between the two CRS of the model: the
\* raster CRS counts two map units per degree of EPSG:4326
transform_bounds(src_crs, dst_crs, b) ==
    IF src_crs = "EPSG:4326" /\ dst_crs = "EPSG:32638"
    THEN <<2 * b[1], 2 * b[2], 2 * b[3], 2 * b[4]>>
    ELSE b

\* src.bounds of a north-up raster: (left, bottom, right, top)
image_bounds(src) == [left |-> src.left, bottom |-> src.top - src.height * src.res,
                      right |-> src.left + src.width * src.res, top |-> src.top]

\* geometry.py lines 26-31
reprojected_bbox(src, input_bbox, source_crs) ==
    IF source_crs # src.crs THEN transform_bounds(source_crs, src.crs, input_bbox)
                            ELSE input_bbox

\* geometry.py lines 35-39: offsets and size before clamping
RawWindow(src, rb) ==
    [col_off |-> TruncDiv(rb[1] - image_bounds(src).left, src.res),
     row_off |-> TruncDiv(image_bounds(src).top - rb[4], src.res),
     width |-> TruncDiv(rb[3] - rb[1], src.res),
     height |-> TruncDiv(rb[4] - rb[2], src.res)]

\* geometry.py lines 44-48: clamp the offsets, keep the size
ClampedWindow(src, w) ==
    [w EXCEPT !.col_off = Max(0, Min(w.col_off, src.width - w.width)),
              !.row_off = Max(0, Min(w.row_off, src.height - w.height))]

NoWindow == [col_off |-> 0, row_off |-> 0, width |-> 0, height |-> 0]

Rasters == [width : 1..MaxSide, height : 1..MaxSide, res : {1, 2},
            left : {0}, top : {MaxSide + MaxSide}, crs : {"EPSG:32638"}]

Coords == -1..(MaxSide + 1)

InitCrop ==
    /\ crop \in [phase : {"call"}, src : Rasters,
                  input_bbox : Coords \X Coords \X Coords \X Coords,
                  source_crs : {"EPSG:4326", "EPSG:32638"},
                  window : {NoWindow}, out : {"none"}]
    /\ pc = "crop"
    /\ args = <<>> /\ bands = <<>> /\ file_suffix = <<>> /\ bbox = NoBox
    /\ client = "unbound" /\ net = {} /\ nitems = 0 /\ idx = 0 /\ bidx = 0
    /\ bands_data = <<>> /\ loopvars = <<>> /\ memfile_list = <<>>
    /\ arr_list = <<>> /\ ret = "pending" /\ exc = "none" /\ scenes = <<>>
    /\ new_memfiles = <<>> /\ repl = <<>> /\ saved = <<>>

\* geometry.py lines 17-61: the whole call
crop_image_to_bbox ==
    /\ pc = "crop"
    /\ LET rb == reprojected_bbox(crop.src, crop.input_bbox, crop.source_crs)
           w == RawWindow(crop.src, rb)
       IN IF w.width <= 0 \/ w.height <= 0
          THEN /\ Raise("ValueError")
               /\ crop' = [crop EXCEPT !.phase = "raised", !.window = w]
          ELSE /\ pc' = "cropped"
               /\ ret' = "None"
               /\ crop' = [crop EXCEPT !.phase = "done",
                                       !.window = ClampedWindow(crop.src, w),
                                       !.out = "output_path"]
               /\ UNCHANGED exc
    /\ UNCHANGED <<args, bands, file_suffix, bbox, client, net, nitems, idx, bidx,
                   bands_data, loopvars, memfile_list, arr_list, scenes,
                   new_memfiles, repl, saved>>

NextCrop == crop_image_to_bbox

SpecCrop == InitCrop /\ [][NextCrop]_vars

\* the box, in the raster's CRS, shares no area with the raster
OutsideExtent ==
    LET rb == reprojected_bbox(crop.src, crop.input_bbox, crop.source_crs)
        ib == image_bounds(crop.src)
    IN /\ rb[1] < rb[3] /\ rb[2] < rb[4]
       /\ \/ rb[3] <= ib.left \/ rb[1] >= ib.right
          \/ rb[4] <= ib.bottom \/ rb[2] >= ib.top

\* C8: a box entirely outside the raster's extent makes the call fail
\* with the invalid-crop-size error and write no output file; and the call
\* fails whenever the window's width or height is <= 0.
C8_OutsideBoxFails ==
    crop.phase # "call" =>
        /\ OutsideExtent => (crop.phase = "raised" /\ exc = "ValueError"
                               /\ crop.out = "none")
        /\ (crop.window.width <= 0 \/ crop.window.height <= 0)
               => (crop.phase = "raised" /\ crop.out = "none")

\* C11: whenever the call does not raise, the pixel window it reads lies
\* entirely inside the source raster: col_off >= 0, row_off >= 0,
\* col_off + width <= raster width and row_off + height <= raster height.
C11_WindowInsideRaster ==
    crop.phase = "done" =>
        /\ crop.window.col_off >= 0
        /\ crop.window.row_off >= 0
        /\ crop.window.col_off + crop.window.width <= crop.src.width
        /\ crop.window.row_off + crop.window.height <= crop.src.height
====
